---- MODULE Spec2Model ----
(***************************************************************************)
(* apps/custom_mosaic_tool/models.py: Query.get_or_create_query_from_post  *)
(* on the concrete model CustomMosaicTask(Query, Metadata, Result).        *)
(*                                                                         *)
(* A form_data mapping is a function whose DOMAIN is the set of keys it    *)
(* holds.  A persisted record is a function over ValidQueryFields.  The    *)
(* table of CustomMosaicTask rows is the set `store`.                      *)
(***************************************************************************)
EXTENDS Integers, Sequences, FiniteSets, TLC

\* Largest number of rows the table is allowed to grow to.
MaxRecords == 2

----------------------------------------------------------------------------
\* The schema.

\* Query.Meta.unique_together
UniqueTogether ==
    {"platform", "product", "time_start", "time_end", "latitude_max",
     "latitude_min", "longitude_max", "longitude_min", "title",
     "description", "query_type", "animated_product", "compositor"}

\* ForeignKey(...) without null=True: the column is NOT NULL and has no default.
RequiredFields == {"query_type", "animated_product", "compositor"}

\* Metadata.satellite_list
MetadataFields == {"satellite_list"}

\* Result.result_filled_path, animation_path, data_path, data_netcdf_path
ResultFields ==
    {"result_filled_path", "animation_path", "data_path", "data_netcdf_path"}

\* Fields the abstract base Query contributes besides those named in
\* unique_together: the primary key and the area identifier.
BaseQueryFields == {"id", "area_id"}

\* [field.name for field in cls._meta.get_fields()]
ValidQueryFields ==
    UniqueTogether \cup MetadataFields \cup ResultFields \cup BaseQueryFields

\* The value an unset primary key has before the row is inserted.
NoId == 0

\* What cls(**query_data) leaves in a field the mapping does not name.
FieldDefault(f) ==
    IF f = "id" THEN NoId
    ELSE IF f = "animation_path" THEN "None"
    ELSE ""

\* Satellite rows: satellite_id -> product_prefix.
Satellite == [LS7 |-> "ls7_"]

\* Area rows: the area_id values present.
Area == {"NT"}

----------------------------------------------------------------------------
\* Steps 1-4: lines 89-99.

EmptyDict == [k \in {} |-> ""]

\* d[k] = v on a dict: the key is added or overwritten.
SetItem(d, k, v) == (k :> v) @@ d

\* Product with the area_id used as submitted, no Area row looked up.
ProductNoAreaLookup(fd) ==
    IF "platform" \notin DOMAIN fd THEN [status |-> "KeyError", value |-> ""]
    ELSE IF fd["platform"] \notin DOMAIN Satellite
         THEN [status |-> "NotFound", value |-> ""]
    ELSE IF "area_id" \notin DOMAIN fd THEN [status |-> "KeyError", value |-> ""]
    ELSE [status |-> "ok", value |-> Satellite[fd["platform"]] \o fd["area_id"]]

\* Product with the keys read by dict.get: a missing key is looked up as
\* None and not found.
ProductWithGet(fd) ==
    IF "platform" \notin DOMAIN fd \/ fd["platform"] \notin DOMAIN Satellite
    THEN [status |-> "NotFound", value |-> ""]
    ELSE IF "area_id" \notin DOMAIN fd \/ fd["area_id"] \notin Area
         THEN [status |-> "NotFound", value |-> ""]
    ELSE [status |-> "ok", value |-> Satellite[fd["platform"]] \o fd["area_id"]]

\* Lines 90-92: the right-hand side of query_data['product'] = ..., evaluated
\* left to right; nothing is assigned when it raises.
Product(fd) ==
    IF "platform" \notin DOMAIN fd THEN [status |-> "KeyError", value |-> ""]
    ELSE IF fd["platform"] \notin DOMAIN Satellite
         THEN [status |-> "NotFound", value |-> ""]
    ELSE IF "area_id" \notin DOMAIN fd THEN [status |-> "KeyError", value |-> ""]
    ELSE IF fd["area_id"] \notin Area THEN [status |-> "NotFound", value |-> ""]
    ELSE [status |-> "ok", value |-> Satellite[fd["platform"]] \o fd["area_id"]]

\* Title without the test for the empty string.
TitleUnlessAbsent(fd) ==
    IF "title" \notin DOMAIN fd THEN "Custom Mosaic Query" ELSE fd["title"]

\* Lines 93-94.
Title(fd) ==
    IF "title" \notin DOMAIN fd \/ fd["title"] = ""
    THEN "Custom Mosaic Query" ELSE fd["title"]

\* Lines 95-96.
Description(fd) ==
    IF "description" \notin DOMAIN fd \/ fd["description"] = ""
    THEN "None" ELSE fd["description"]

\* Normalise without the assignment of lines 95-96.
NormaliseNoDescription(fd) ==
    LET d1 == SetItem(fd, "product", Product(fd).value)
    IN  SetItem(d1, "title", Title(d1))

\* Lines 89-96 on the caller's dict (query_data is form_data itself); only
\* applied when Product(fd) is ok.
Normalise(fd) ==
    LET d1 == SetItem(fd, "product", Product(fd).value)
        d2 == SetItem(d1, "title", Title(d1))
    IN  SetItem(d2, "description", Description(d2))

\* Filter that keeps every key.
FilterNothing(d) == d

\* Lines 98-99: a new dict holding only the declared fields.
Filter(d) == [k \in DOMAIN d \cap ValidQueryFields |-> d[k]]

----------------------------------------------------------------------------
\* Steps 5-6: lines 101-107.

\* Matches comparing the whole row, primary key included.
MatchesWholeRow(qd, st) ==
    {r \in st : \A f \in ValidQueryFields :
        r[f] = IF f \in DOMAIN qd THEN qd[f] ELSE FieldDefault(f)}

\* Matches that leaves the title out of the comparison.
MatchesIgnoringTitle(qd, st) ==
    {r \in st : \A k \in DOMAIN qd \ {"title"} : r[k] = qd[k]}

\* The rows cls.objects.get(**query_data) selects.
Matches(qd, st) == {r \in st : \A k \in DOMAIN qd : r[k] = qd[k]}

NoQuery == [f \in ValidQueryFields |-> FieldDefault(f)]

Result(s, c, q) == [status |-> s, created |-> c, query |-> q]

\* Line 102: cls.objects.get(**query_data).
Get(qd, st) ==
    IF \E k \in DOMAIN qd : k \notin ValidQueryFields
    THEN Result("FieldError", FALSE, NoQuery)
    ELSE IF Matches(qd, st) = {} THEN Result("DoesNotExist", FALSE, NoQuery)
    ELSE IF Cardinality(Matches(qd, st)) > 1
         THEN Result("MultipleObjectsReturned", FALSE, NoQuery)
    ELSE Result("ok", FALSE, CHOOSE r \in Matches(qd, st) : TRUE)

\* Line 105: cls(**query_data).
New(qd) == [f \in ValidQueryFields |->
              IF f \in DOMAIN qd THEN qd[f] ELSE FieldDefault(f)]

SameUnique(r1, r2) == \A f \in UniqueTogether : r1[f] = r2[f]

RECURSIVE MaxId(_)
MaxId(st) ==
    IF st = {} THEN 0
    ELSE LET r == CHOOSE x \in st : TRUE
             m == MaxId(st \ {r})
         IN  IF r["id"] > m THEN r["id"] ELSE m

Saved(s, q, st) == [status |-> s, query |-> q, store |-> st]

\* Rejected on a table without the unique_together constraint.
RejectedNullOnly(row, others) ==
    \E f \in RequiredFields : row[f] = FieldDefault(f)

\* A row the table's NOT NULL columns or unique_together reject, the rows
\* `others` being the rest of the table.
Rejected(row, others) ==
    \/ \E f \in RequiredFields : row[f] = FieldDefault(f)
    \/ \E r \in others : SameUnique(r, row)

\* Line 106, first statement of query.save() when the primary key is set:
\* UPDATE ... WHERE id = obj.id.  "norows" when no row has that key.
Update(obj, st) ==
    LET target == {r \in st : r["id"] = obj["id"]}
    IN  IF target = {} THEN Saved("norows", obj, st)
        ELSE IF Rejected(obj, st \ target) THEN Saved("IntegrityError", obj, st)
        ELSE Saved("ok", obj, (st \ target) \cup {obj})

\* Insert that ignores a conflict: nothing is written and nothing is raised.
InsertOrIgnore(obj, st) ==
    LET row == IF obj["id"] = NoId
               THEN [obj EXCEPT !["id"] = MaxId(st) + 1] ELSE obj
    IN  IF Rejected(row, st) \/ \E r \in st : r["id"] = row["id"]
        THEN Saved("ok", row, st)
        ELSE Saved("ok", row, st \cup {row})

\* Line 106, the INSERT of query.save(): the table gives the next key when
\* none is set, and rejects a key some row already has.
Insert(obj, st) ==
    LET row == IF obj["id"] = NoId
               THEN [obj EXCEPT !["id"] = MaxId(st) + 1] ELSE obj
    IN  IF Rejected(row, st) \/ \E r \in st : r["id"] = row["id"]
        THEN Saved("IntegrityError", obj, st)
        ELSE Saved("ok", row, st \cup {row})

\* Lines 105-106 with nothing in between: cls(**query_data).save().
Save(qd, st) ==
    IF New(qd)["id"] # NoId /\ Update(New(qd), st).status # "norows"
    THEN Update(New(qd), st)
    ELSE Insert(New(qd), st)

\* Lines 89-107 run without interruption: the caller's dict afterwards, the
\* outcome and the table afterwards.
GetOrCreate(fd, st) ==
    IF Product(fd).status # "ok"
    THEN [form_data |-> fd, store |-> st,
          ret |-> Result(Product(fd).status, FALSE, NoQuery)]
    ELSE LET qd    == Filter(Normalise(fd))
             found == Get(qd, st)
             saved == Save(qd, st)
         IN  IF found.status = "ok"
             THEN [form_data |-> Normalise(fd), store |-> st, ret |-> found]
             ELSE IF found.status # "DoesNotExist"
                  THEN [form_data |-> Normalise(fd), store |-> st, ret |-> found]
             ELSE IF saved.status = "ok"
                  THEN [form_data |-> Normalise(fd), store |-> saved.store,
                        ret |-> Result("ok", TRUE, saved.query)]
             ELSE [form_data |-> Normalise(fd), store |-> st,
                   ret |-> Result(saved.status, FALSE, NoQuery)]

----------------------------------------------------------------------------
\* The submissions.

Opt(k, vs) == {EmptyDict} \cup {(k :> v) : v \in vs}

\* Keys every submission of the tool's forms carries, with one value each.
CommonForm ==
    [time_start |-> "2015-01-01", time_end |-> "2016-01-01",
     latitude_max |-> "1", latitude_min |-> "0",
     longitude_max |-> "1", longitude_min |-> "0",
     query_type |-> "true_color", animated_product |-> "none"]

Resolving == [platform |-> "LS7", area_id |-> "NT"]

\* Submissions whose platform and area_id resolve: with or without a title,
\* a compositor, a result field and a primary key ...
QueryForms ==
    {t @@ c @@ a @@ i @@ CommonForm @@ Resolving :
        t \in Opt("title", {"", "T"}),
        c \in Opt("compositor", {"median_pixel", "most_recent"}),
        a \in Opt("animation_path", {"a.gif"}),
        i \in Opt("id", {1})}

\* ... and with a description.
DescribedForms ==
    {d @@ t @@ CommonForm @@ Resolving @@ [compositor |-> "median_pixel"] :
        d \in {("description" :> v) : v \in {"", "D"}},
        t \in Opt("title", {"T"})}

\* Submissions with a missing or unknown platform or area_id.
FailingForms ==
    {f \in {p @@ a @@ t @@ CommonForm @@ [compositor |-> "median_pixel"] :
              p \in Opt("platform", {"LS7", "XX"}),
              a \in Opt("area_id", {"NT", "ZZ"}),
              t \in Opt("title", {"", "T"})} :
        ~("platform" \in DOMAIN f /\ f["platform"] = "LS7" /\
          "area_id" \in DOMAIN f /\ f["area_id"] = "NT")}

FormData == QueryForms \cup DescribedForms \cup FailingForms

\* The same submissions with and without a key that is no field of the model.
PostedForms ==
    {e @@ f : e \in Opt("csrfmiddlewaretoken", {"tok"}), f \in FormData}

\* Two submissions that differ at most in keys that are no declared field.
SameFields(f, g) ==
    /\ DOMAIN f \cap ValidQueryFields = DOMAIN g \cap ValidQueryFields
    /\ \A k \in DOMAIN f \cap ValidQueryFields : f[k] = g[k]

\* The submissions two concurrent requests make.
ConcurrentForms ==
    {t @@ c @@ a @@ i @@ CommonForm @@ Resolving :
        t \in Opt("title", {"T"}),
        c \in Opt("compositor", {"median_pixel"}),
        a \in Opt("animation_path", {"a.gif"}),
        i \in Opt("id", {1})}

Procs == {1, 2}

----------------------------------------------------------------------------
\* State.  store is the table.  pc .. before1 belong to a single caller;
\* twinStore .. twinRet to a second installation fed the same calls;
\* procs to the concurrent request handlers.

VARIABLES store, pc, arg, form_data, ret, before, first, arg1, before1,
          twinStore, twinArg, twinRet, procs

caller == <<pc, arg, form_data, ret, before>>
pair == <<first, arg1, before1>>
twin == <<twinStore, twinArg, twinRet>>
vars == <<store, caller, pair, twin, procs>>

NoRet == Result("none", FALSE, NoQuery)

IdleProc ==
    [pc |-> "idle", arg |-> EmptyDict, form_data |-> EmptyDict,
     query_data |-> EmptyDict, obj |-> NoQuery, ret |-> NoRet,
     seen |-> {}, missed |-> FALSE, raced |-> FALSE]

Init ==
    /\ store = {}
    /\ pc = "idle"
    /\ arg = EmptyDict
    /\ form_data = EmptyDict
    /\ ret = NoRet
    /\ before = {}
    /\ first = NoRet
    /\ arg1 = EmptyDict
    /\ before1 = {}
    /\ twinStore = {}
    /\ twinArg = EmptyDict
    /\ twinRet = NoRet
    /\ procs = [p \in Procs |-> IdleProc]

----------------------------------------------------------------------------
\* One caller at a time: a call, optionally the same call again, and the
\* caller dropping the result.

\* The caller's side of get_or_create_query_from_post(fd) on the table.
Run(fd) ==
    /\ Cardinality(GetOrCreate(fd, store).store) <= MaxRecords
    /\ arg' = fd
    /\ before' = store
    /\ form_data' = GetOrCreate(fd, store).form_data
    /\ ret' = GetOrCreate(fd, store).ret
    /\ store' = GetOrCreate(fd, store).store

Call(fd) ==
    /\ pc = "idle"
    /\ Run(fd)
    /\ pc' = "returned"
    /\ arg1' = fd
    /\ before1' = store
    /\ first' = GetOrCreate(fd, store).ret
    /\ UNCHANGED <<twin, procs>>

\* The same call again, nothing in between: with the same dict object
\* (reuse) or with an equal copy of what was first passed.
Repeat(reuse) ==
    /\ pc = "returned"
    /\ Run(IF reuse THEN form_data ELSE arg1)
    /\ pc' = "repeated"
    /\ UNCHANGED <<pair, twin, procs>>

\* The caller is done with the result.
Done ==
    /\ pc \in {"returned", "repeated"}
    /\ pc' = "idle"
    /\ arg' = EmptyDict
    /\ form_data' = EmptyDict
    /\ ret' = NoRet
    /\ before' = {}
    /\ first' = NoRet
    /\ arg1' = EmptyDict
    /\ before1' = {}
    /\ twinArg' = EmptyDict
    /\ twinRet' = NoRet
    /\ UNCHANGED <<store, twinStore, procs>>

Next ==
    \/ \E fd \in FormData : Call(fd)
    \/ \E reuse \in BOOLEAN : Repeat(reuse)
    \/ Done

Spec == Init /\ [][Next]_vars

----------------------------------------------------------------------------
\* Two installations with the same table, one called with fd and the other
\* with a submission that differs from fd only in undeclared keys.

TwinCall(fd, fd2) ==
    /\ pc = "idle"
    /\ Run(fd)
    /\ Cardinality(GetOrCreate(fd2, twinStore).store) <= MaxRecords
    /\ pc' = "returned"
    /\ twinArg' = fd2
    /\ twinStore' = GetOrCreate(fd2, twinStore).store
    /\ twinRet' = GetOrCreate(fd2, twinStore).ret
    /\ UNCHANGED <<pair, procs>>

NextTwin ==
    \/ \E fd \in PostedForms :
         \E fd2 \in {g \in PostedForms : SameFields(fd, g)} : TwinCall(fd, fd2)
    \/ Done

SpecTwin == Init /\ [][NextTwin]_vars

----------------------------------------------------------------------------
\* Concurrent request handlers on one table.  Each database statement is one
\* step; the handler holds no lock between them.

\* Lines 89-99.
Begin(p, fd) ==
    /\ procs[p].pc = "idle"
    /\ procs' = [procs EXCEPT ![p] =
         IF Product(fd).status # "ok"
         THEN [IdleProc EXCEPT !.pc = "returned", !.arg = fd, !.form_data = fd,
                               !.ret = Result(Product(fd).status, FALSE, NoQuery)]
         ELSE [IdleProc EXCEPT !.pc = "get", !.arg = fd,
                               !.form_data = Normalise(fd),
                               !.query_data = Filter(Normalise(fd))]]
    /\ UNCHANGED <<store, caller, pair, twin>>

\* Another handler with the same submission has found nothing and has not
\* written yet.
Overlaps(p, q) ==
    /\ q # p
    /\ procs[q].pc \in {"update", "insert"}
    /\ procs[q].arg = procs[p].arg

\* Lines 101-105: the SELECT, and on DoesNotExist the new object.  raced
\* records, on both handlers, that both lookups of one submission found
\* nothing before either handler wrote.
Lookup(p) ==
    /\ procs[p].pc = "get"
    /\ LET found == Get(procs[p].query_data, store)
           obj   == New(procs[p].query_data)
       IN  procs' = [q \in Procs |->
             IF q = p
             THEN IF found.status = "DoesNotExist"
                  THEN [procs[p] EXCEPT
                          !.pc = IF obj["id"] # NoId THEN "update" ELSE "insert",
                          !.obj = obj, !.seen = store, !.missed = TRUE,
                          !.raced = \E o \in Procs : Overlaps(p, o)]
                  ELSE [procs[p] EXCEPT !.pc = "returned", !.ret = found,
                                        !.seen = store]
             ELSE IF found.status = "DoesNotExist" /\ Overlaps(p, q)
                  THEN [procs[q] EXCEPT !.raced = TRUE]
                  ELSE procs[q]]
    /\ UNCHANGED <<store, caller, pair, twin>>

\* Line 106 with the primary key set: the UPDATE of save().
TryUpdate(p) ==
    /\ procs[p].pc = "update"
    /\ LET u == Update(procs[p].obj, store)
       IN  /\ store' = u.store
           /\ procs' = [procs EXCEPT ![p] =
                IF u.status = "norows" THEN [@ EXCEPT !.pc = "insert"]
                ELSE IF u.status = "ok"
                     THEN [@ EXCEPT !.pc = "returned",
                                    !.ret = Result("ok", TRUE, u.query)]
                ELSE [@ EXCEPT !.pc = "returned",
                               !.ret = Result(u.status, FALSE, NoQuery)]]
    /\ UNCHANGED <<caller, pair, twin>>

\* Line 106: the INSERT of save().
TryInsert(p) ==
    /\ procs[p].pc = "insert"
    /\ LET i == Insert(procs[p].obj, store)
       IN  /\ Cardinality(i.store) <= MaxRecords
           /\ store' = i.store
           /\ procs' = [procs EXCEPT ![p] =
                IF i.status = "ok"
                THEN [@ EXCEPT !.pc = "returned",
                               !.ret = Result("ok", TRUE, i.query)]
                ELSE [@ EXCEPT !.pc = "returned",
                               !.ret = Result(i.status, FALSE, NoQuery)]]
    /\ UNCHANGED <<caller, pair, twin>>

\* The request is answered.
Finish(p) ==
    /\ procs[p].pc = "returned"
    /\ procs' = [procs EXCEPT ![p] = IdleProc]
    /\ UNCHANGED <<store, caller, pair, twin>>

NextConc ==
    \E p \in Procs :
        \/ \E fd \in ConcurrentForms : Begin(p, fd)
        \/ Lookup(p)
        \/ TryUpdate(p)
        \/ TryInsert(p)
        \/ Finish(p)

SpecConc == Init /\ [][NextConc]_vars

----------------------------------------------------------------------------
\* Properties.

Returned == pc \in {"returned", "repeated"}

Resolves(fd) == Product(fd).status = "ok"

QueryData(fd) == Filter(Normalise(fd))

Unique(st) == \A r1, r2 \in st : SameUnique(r1, r2) => r1 = r2

\* The storage accepts a row built from fd: fd names the three references,
\* and no row of st other than the one fd's id names holds its thirteen
\* unique_together values.
Accepts(fd, st) ==
    /\ RequiredFields \subseteq DOMAIN fd
    /\ \A r \in st :
         SameUnique(r, New(QueryData(fd)))
            => "id" \in DOMAIN fd /\ r["id"] = fd["id"]

\* The title and description sections 4.1 and 8 of the specification give.
SpecTitle(fd) ==
    IF "title" \in DOMAIN fd /\ fd["title"] # "" THEN fd["title"]
    ELSE "Custom Mosaic Query"

SpecDescription(fd) ==
    IF "description" \in DOMAIN fd /\ fd["description"] # ""
    THEN fd["description"] ELSE "None"

\* ---- C1 ----

\* Two consecutive calls with identical form_data, platform and area_id
\* resolving, no matching record persisted before the first.
C1_Case ==
    /\ pc = "repeated"
    /\ Resolves(arg1)
    /\ Matches(QueryData(arg1), before1) = {}

C4_NeverUpdated ==
    Returned =>
        /\ before \subseteq store
        /\ Resolves(arg) =>
             \A r \in before :
                Matches(QueryData(arg), before) = {r}
                   => ret = Result("ok", FALSE, r) /\ store = before
        /\ store # before =>
             /\ ret.status = "ok" /\ ret.created
             /\ Cardinality(store) = Cardinality(before) + 1

\* ---- C5 ----

Unknown(fd, k, known) == k \in DOMAIN fd /\ fd[k] \notin known

\* C5 as claimed: a platform naming no Satellite, or an area_id naming no
\* Area, makes the call fail with NotFound and leaves the table as it was.
C5_Original ==
    Returned /\ (\/ Unknown(arg, "platform", DOMAIN Satellite)
                 \/ Unknown(arg, "area_id", Area))
        => ret.status = "NotFound" /\ store = before

\* C5 as amended: a platform naming no Satellite, or, form_data holding the
\* key platform, an area_id naming no Area, makes the call fail with NotFound
\* and leaves the table as it was.
C5_NotFound ==
    Returned /\ (\/ Unknown(arg, "platform", DOMAIN Satellite)
                 \/ /\ "platform" \in DOMAIN arg
                    /\ Unknown(arg, "area_id", Area))
        => ret.status = "NotFound" /\ store = before

C5_Witness ==
    /\ pc = "returned"
    /\ "platform" \in DOMAIN arg /\ arg["platform"] \in DOMAIN Satellite
    /\ Unknown(arg, "area_id", Area)
    /\ ret.status = "NotFound"
    /\ store = before /\ before # {}

\* ---- C6 ----

\* form_data names every unique_together field the routine does not compute.
NamesUniqueFields(fd) ==
    UniqueTogether \ {"product", "title", "description"} \subseteq DOMAIN fd

\* C6 as claimed: on a table where no two records share the thirteen values,
\* the lookup matches at most one record, whatever form_data is.
C6_Original ==
    Returned /\ Unique(before) => ret.status # "MultipleObjectsReturned"

\* C6 as amended: on a table where no two records share the thirteen values,
\* the lookup matches at most one record for every form_data that names the
\* ten unique_together fields other than product, title and description.
C6_AtMostOne ==
    Returned /\ Unique(before) /\ NamesUniqueFields(arg)
        => /\ ret.status # "MultipleObjectsReturned"
           /\ Resolves(arg) => Cardinality(Matches(QueryData(arg), before)) <= 1

C6_Witness ==
    /\ pc = "returned"
    /\ Cardinality(before) = 2 /\ Unique(before)
    /\ NamesUniqueFields(arg)
    /\ ret.status = "ok" /\ ~ret.created
    /\ Matches(QueryData(arg), before) = {ret.query}

\* ---- C8 ----

\* A result, or one of the errors of section 7 of the specification.
SpecOutcomes ==
    {"ok", "NotFound", "IntegrityError", "MultipleObjectsReturned"}

\* C8 as claimed: without the key platform or without the key area_id the
\* call fails with NotFound and creates nothing, so that every failure is a
\* NotFound or an integrity violation.
C8_Original ==
    Returned =>
        /\ "platform" \notin DOMAIN arg \/ "area_id" \notin DOMAIN arg
              => ret.status = "NotFound" /\ store = before
        /\ ret.status \in SpecOutcomes

\* C8 as amended: without the key platform, or with a platform that resolves
\* and without the key area_id, the call fails with a KeyError, which is not
\* the NotFound error of an unresolvable identifier; with a platform that
\* names no Satellite and without area_id it fails with NotFound.  Nothing is
\* created, and every failure is a KeyError, a NotFound or an integrity
\* violation.
C8_KeyError ==
    Returned =>
        /\ "platform" \notin DOMAIN arg
              => ret.status = "KeyError" /\ store = before
        /\ "platform" \in DOMAIN arg /\ "area_id" \notin DOMAIN arg
              => /\ ret.status = IF arg["platform"] \in DOMAIN Satellite
                                 THEN "KeyError" ELSE "NotFound"
                 /\ store = before
        /\ ret.status \in SpecOutcomes \cup {"KeyError"}

C8_Witness ==
    /\ pc = "returned"
    /\ "platform" \in DOMAIN arg /\ "area_id" \notin DOMAIN arg
    /\ ret.status = "KeyError"
    /\ store = before /\ before # {}

\* ---- C9 ----

\* C9: the record a call returns, created or found, has form_data's title
\* when that key is present and not "", else "Custom Mosaic Query", and
\* form_data's description when present and not "", else "None".
C9_Defaults ==
    Returned /\ ret.status = "ok"
        => /\ ret.query["title"] = SpecTitle(arg)
           /\ ret.query["description"] = SpecDescription(arg)

C9_Witness ==
    /\ pc = "returned"
    /\ ret.status = "ok" /\ ~ret.created
    /\ "title" \in DOMAIN arg /\ arg["title"] = ""
    /\ "description" \notin DOMAIN arg
    /\ ret.query["title"] = "Custom Mosaic Query"
    /\ ret.query["description"] = "None"

\* ---- C7 ----

C10_Expected(fd) ==
    [k \in DOMAIN fd \cup {"product", "title", "description"} |->
        IF k = "product" THEN Satellite[fd["platform"]] \o fd["area_id"]
        ELSE IF k = "title" THEN SpecTitle(fd)
        ELSE IF k = "description" THEN SpecDescription(fd)
        ELSE fd[k]]

\* C10: after a call that gets past the Satellite and Area lookups the
\* caller's form_data holds product, title and description with the resolved
\* values and every other key as it was, extraneous keys included; when a
\* lookup fails with NotFound form_data is as it was passed in.
C10_CallerMapping ==
    pc = "returned" =>
        /\ ret.status = "NotFound" => form_data = arg
        /\ ret.status \notin {"NotFound", "KeyError"}
              => form_data = C10_Expected(arg)

C10_Witness ==
    /\ pc = "returned"
    /\ ret.status = "ok"
    /\ "csrfmiddlewaretoken" \in DOMAIN arg
    /\ "title" \notin DOMAIN arg
    /\ form_data # arg
    /\ form_data["csrfmiddlewaretoken"] = arg["csrfmiddlewaretoken"]
    /\ form_data["product"] = "ls7_NT"

\* ---- C2 ----

\* C2: whatever calls have run, one after the other or interleaved, no two
\* persisted records share all thirteen unique_together values.
C2_UniqueTogether == Unique(store)

\* A write was turned down although the row names every required field: the
\* constraint, not the NOT NULL columns, rejected it.
C2_Witness ==
    \E p \in Procs :
        /\ procs[p].pc = "returned"
        /\ procs[p].ret.status = "IntegrityError"
        /\ RequiredFields \subseteq DOMAIN procs[p].arg
        /\ "id" \notin DOMAIN procs[p].arg
        /\ Cardinality(store) = 2

\* ---- C3 ----

\* Two identical submissions ran concurrently, both lookups found nothing
\* before either wrote, both went on to save, both are answered.
C3_Raced ==
    /\ \A p \in Procs : procs[p].pc = "returned" /\ procs[p].raced
    /\ procs[1].arg = procs[2].arg

C3_Matching == Matches(procs[1].query_data, store)

\* One write accepted, the other rejected with an integrity error, one
\* matching record persisted.
C3_OneWins ==
    \E w, l \in Procs :
        /\ w # l
        /\ procs[w].ret.status = "ok" /\ procs[w].ret.created
        /\ procs[l].ret.status = "IntegrityError"
        /\ C3_Matching = {procs[w].ret.query}

\* Both writes accepted on the same row.
C3_BothWin ==
    /\ \A p \in Procs : procs[p].ret.status = "ok" /\ procs[p].ret.created
    /\ procs[1].ret.query = procs[2].ret.query
    /\ C3_Matching = {procs[1].ret.query}

\* Both writes rejected.
C3_BothLose ==
    /\ \A p \in Procs : procs[p].ret.status = "IntegrityError"
    /\ C3_Matching = {}

\* The storage turns the row down whoever writes it: a required reference is
\* missing, or a record that does not match the submission holds its thirteen
\* values.
C3_Blocked ==
    \/ ~(RequiredFields \subseteq DOMAIN procs[1].arg)
    \/ \E r \in store \ C3_Matching : SameUnique(r, New(procs[1].query_data))

====
